---------------------------- MODULE Spec2Model ----------------------------
(***************************************************************************)
(* dir-treeify: consolidateFolders (the Flags version, src/main.go 283-369) *)
(* and the part of main that validates its inputs (src/main.go 385-397).   *)
(*                                                                         *)
(* Strings are sequences of one-character strings.  A path below the       *)
(* output directory is the sequence of its components (<<>> is outDir).    *)
(***************************************************************************)
EXTENDS Naturals, Integers, Sequences, FiniteSets, TLC

\* ------------------------------------------------------------------ bounds

\* Largest number of entries the input directory holds.
MaxFiles == 2

\* ----------------------------------------------------------------- strings

Space == " "

RECURSIVE TrimLeft(_)
TrimLeft(s) ==
    IF s # <<>> /\ Head(s) = Space THEN TrimLeft(Tail(s)) ELSE s

RECURSIVE TrimRight(_)
TrimRight(s) ==
    IF s # <<>> /\ s[Len(s)] = Space
    THEN TrimRight(SubSeq(s, 1, Len(s) - 1))
    ELSE s

\* strings.TrimSpace
TrimSpace(s) == TrimRight(TrimLeft(s))

LowerChar(c) ==
    CASE c = "R" -> "r"
      [] c = "A" -> "a"
      [] c = "B" -> "b"
      [] c = "Q" -> "q"
      [] OTHER -> c

\* strings.ToLower
ToLower(s) == [k \in 1..Len(s) |-> LowerChar(s[k])]

\* strings.ContainsAny(s, chars)
ContainsAny(s, chars) == \E k \in 1..Len(s) : s[k] \in chars

\* strings.Contains(s, substr); the empty string is contained in every string
Contains(s, substr) ==
    \E k \in 1..(Len(s) + 1) :
        /\ k + Len(substr) - 1 <= Len(s)
        /\ SubSeq(s, k, k + Len(substr) - 1) = substr

\* strings.Split(s, " "): the pieces between the separators, empty pieces kept
RECURSIVE Split(_)
Split(s) ==
    IF \A k \in 1..Len(s) : s[k] # Space
    THEN <<s>>
    ELSE LET k == CHOOSE k \in 1..Len(s) :
                      s[k] = Space /\ \A m \in 1..(k - 1) : s[m] # Space
         IN  <<SubSeq(s, 1, k - 1)>> \o Split(SubSeq(s, k + 1, Len(s)))

\* ------------------------------------------------------------------ regexp

\* The characters of the pre-check's set "[ & ]" (src/main.go:296)
MarkerChars == {"[", " ", "&", "]"}

\* A compiled pattern of the shape  \[ G \] M  ("bracket") or  G - M  ("dash")
\* with G = .+? and M = .+ ; names are SubexpNames() (index 0, the whole match,
\* is unnamed) and parts says what each subexpression captures: "W" the whole
\* match, "G" the group's text, "B" the brackets with their text, "M" the rest.
NamedRegex ==
    [shape |-> "bracket", names |-> <<"", "parent", "child">>,
     parts |-> <<"W", "G", "M">>]
UnnamedRegex ==
    [shape |-> "bracket", names |-> <<"", "", "">>, parts |-> <<"W", "G", "M">>]
OneGroupRegex ==
    [shape |-> "bracket", names |-> <<"", "parent">>, parts |-> <<"W", "G">>]
ThreeGroupRegex ==
    [shape |-> "bracket", names |-> <<"", "", "parent", "child">>,
     parts |-> <<"W", "B", "G", "M">>]
\* --regex '(?P<parent>.+?)-(?P<child>.+)'
DashRegex ==
    [shape |-> "dash", names |-> <<"", "parent", "child">>,
     parts |-> <<"W", "G", "M">>]

\* regexp.NumSubexp
NumSubexp(re) == Len(re.names) - 1

\* The leftmost match of \[(.+?)\](.+) in s: <<i, j>> with s[i] = "[",
\* s[j] the first "]" at least two places on that still has text after it;
\* <<>> when there is none.
MatchPos(s) ==
    LET Closes(i) == {j \in (i + 2)..(Len(s) - 1) : s[j] = "]"}
        Opens == {i \in 1..Len(s) : s[i] = "[" /\ Closes(i) # {}}
    IN  IF Opens = {} THEN <<>>
        ELSE LET i == CHOOSE i \in Opens : \A i2 \in Opens : i <= i2
                 j == CHOOSE j \in Closes(i) : \A j2 \in Closes(i) : j <= j2
             IN  <<i, j>>

\* The leftmost match of (.+?)-(.+) in s: <<0, j>> with s[j] the first "-"
\* that has text before and after it; <<>> when there is none.
DashPos(s) ==
    LET Dashes == {j \in 2..(Len(s) - 1) : s[j] = "-"}
    IN  IF Dashes = {} THEN <<>>
        ELSE <<0, CHOOSE j \in Dashes : \A j2 \in Dashes : j <= j2>>

\* regexp.FindStringSubmatch: <<>> (nil) or the captures, index 0 first
FindStringSubmatch(re, s) ==
    LET p == IF re.shape = "dash" THEN DashPos(s) ELSE MatchPos(s)
    IN  IF p = <<>> THEN <<>>
        ELSE [k \in 1..Len(re.parts) |->
                CASE re.parts[k] = "W" -> SubSeq(s, IF p[1] = 0 THEN 1 ELSE p[1], Len(s))
                  [] re.parts[k] = "G" -> SubSeq(s, p[1] + 1, p[2] - 1)
                  [] re.parts[k] = "B" -> SubSeq(s, p[1], p[2])
                  [] re.parts[k] = "M" -> SubSeq(s, p[2] + 1, Len(s))]

\* ------------------------------------------------------------------- paths

Dot    == <<".">>
DotDot == <<".", ".">>

\* filepath.Join(outDirName, elems...) relative to outDirName: empty elements
\* are ignored and the result is Cleaned ("." dropped, ".." climbs).
RECURSIVE JoinInto(_, _)
JoinInto(acc, elems) ==
    IF elems = <<>> THEN acc
    ELSE LET el == Head(elems)
             nxt == IF el = <<>> \/ el = Dot THEN acc
                    ELSE IF el = DotDot /\ acc # <<>> /\ acc[Len(acc)] # DotDot
                         THEN SubSeq(acc, 1, Len(acc) - 1)
                         ELSE Append(acc, el)
         IN  JoinInto(nxt, Tail(elems))

Join(elems) == JoinInto(<<>>, elems)

\* ----------------------------------------------------------- input universe

\* The entries an input directory may hold: name and os.FileMode.  A
\* directory has mode drwxr-xr-x, a regular file -rw-r--r--.
DirMode  == "drwx"
FileMode == "-rw-"

NameRa   == <<"[", "R", "]", "a">>
Namera   == <<"[", "r", "]", "a">>
Namerb   == <<"[", "r", "]", " ", "b">>
NameAB   == <<"a", " ", "b">>
NameDash == <<"r", "-", "a">>
NameUp   == <<"[", ".", ".", "]", "a">>

EntryNames == {NameRa, Namera, Namerb, NameAB, NameDash, NameUp}

\* os.FileInfo.Mode() of the entry with this name
ModeOf(name) == IF name \in {NameRa, Namerb} THEN FileMode ELSE DirMode

\* The permission bits MkdirAll gives a directory it creates with this mode
PermOf(mode) == IF mode = DirMode THEN "rwx" ELSE "rw-"

Regexes == {NamedRegex, UnnamedRegex, OneGroupRegex, ThreeGroupRegex, DashRegex}

\* Values of --ignore-parents and --ignore-children
IgnoreParentsStrings  == {<<>>, <<"r", " ">>}
IgnoreChildrenStrings == {<<>>, <<"a">>}

Listings == {fs \in SUBSET EntryNames : Cardinality(fs) <= MaxFiles}

\* -------------------------------------------------------------- file system

NoNode        == [kind |-> "none", to |-> <<>>, perm |-> ""]
FileNode      == [kind |-> "file", to |-> <<>>, perm |-> "rw-"]
DirNode(perm) == [kind |-> "dir",  to |-> <<>>, perm |-> perm]
LinkNode(src) == [kind |-> "link", to |-> src,  perm |-> "rwx"]

\* Target of a link left by an earlier, unrelated run
OldTarget == <<"o", "l", "d">>

PathR  == << <<"r">> >>
PathRa == << <<"r">>, <<"a">> >>
PathRb == << <<"r">>, <<"b">> >>

\* outDir/.. and outDir/../a: the directory that holds outDir, and a slot in it
PathUp  == << DotDot >>
PathUpA == << DotDot, <<"a">> >>

Paths == {<<>>, PathR, PathRa, PathRb, PathUp, PathUpA}

EmptyTree ==
    [p \in Paths |-> IF p \in {<<>>, PathUp} THEN DirNode("rwx") ELSE NoNode]

\* Output trees a run may start from
InitialTrees ==
    { EmptyTree,
      [EmptyTree EXCEPT ![PathR] = DirNode("rwx"), ![PathRa] = LinkNode(OldTarget)],
      [EmptyTree EXCEPT ![PathR] = DirNode("rwx"), ![PathRa] = FileNode],
      [EmptyTree EXCEPT ![PathR] = FileNode] }

\* Whether the directory holding path p can be searched and written
ParentOK(tree, p) ==
    \/ p = <<>>
    \/ p[Len(p)] = DotDot
    \/ LET par == tree[SubSeq(p, 1, Len(p) - 1)]
       IN  par.kind = "dir" /\ par.perm = "rwx"

\* os.Stat(p).IsDir(): follows a link to the source entry it names
StatIsDir(tree, p) ==
    \/ tree[p].kind = "dir"
    \/ tree[p].kind = "link" /\ tree[p].to \in EntryNames
                             /\ ModeOf(tree[p].to) = DirMode

\* os.MkdirAll(p, mode): nil when p is a directory already, else it creates
\* p with the mode's permission bits; an error when p is something else.
MkdirAllOK(tree, p) == StatIsDir(tree, p) \/ (tree[p].kind = "none" /\ ParentOK(tree, p))

MkdirAllTree(tree, p, mode) ==
    IF tree[p].kind = "none" /\ ParentOK(tree, p)
    THEN [tree EXCEPT ![p] = DirNode(PermOf(mode))]
    ELSE tree

\* os.Stat in place of os.Lstat: a link is followed and never seen as one
LstatFollowing(tree, p) ==
    IF ~ParentOK(tree, p) THEN "error"
    ELSE IF tree[p].kind = "none" THEN "notexist" ELSE "other"

\* os.Lstat(p): "notexist", "error" (any other failure), "symlink" or
\* "other" (an info whose mode has, or has not, os.ModeSymlink)
Lstat(tree, p) ==
    IF ~ParentOK(tree, p) THEN "error"
    ELSE CASE tree[p].kind = "none" -> "notexist"
           [] tree[p].kind = "link" -> "symlink"
           [] OTHER -> "other"

\* os.Remove(p) of a link or file
RemoveOK(tree, p) == ParentOK(tree, p) /\ tree[p].kind \in {"link", "file"}
RemoveTree(tree, p) == [tree EXCEPT ![p] = NoNode]

\* os.Symlink(src, p)
SymlinkOK(tree, p) == ParentOK(tree, p) /\ tree[p].kind = "none"
SymlinkTree(tree, src, p) == [tree EXCEPT ![p] = LinkNode(src)]

\* ------------------------------------------------------------------- state

VARIABLES
    regexFlag,     \* the pattern compiled from --regex
    ignoreParentsString, ignoreChildrenString,   \* the two ignore flags
    inDir,         \* names of the entries of the input directory
    readDirFails,  \* whether ioutil.ReadDir(inDirName) fails
    tree,          \* the output tree: path -> node
    run,           \* "first" or "second" invocation of the tool on this tree
    mainpc,        \* where main / consolidateFolders stands
    files,         \* the listing ReadDir returned
    err,           \* consolidateFolders' named result err, shared with the units
    ignored,       \* the counter shared by the units
    errors,        \* the buffered channel, capacity len(files)
    i, errCount,   \* the collecting loop's variables
    summary,       \* <<linked, errors>> as logged, <<>> before
    pc,            \* each unit's position
    tmp,           \* each unit's read of ignored, for ignored++
    destInfo,      \* each unit's result of os.Lstat(dest)
    out,           \* the value each unit is about to send
    result,        \* history: what became of each entry
    received,      \* history: the values the collector received from each unit
    tree0,         \* history: the output tree when this run started
    first          \* history: tree and results at the end of the first run

vars == <<regexFlag, ignoreParentsString, ignoreChildrenString, inDir,
          readDirFails, tree, run, mainpc, files, err, ignored, errors, i,
          errCount, summary, pc, tmp, destInfo, out, result, received, tree0,
          first>>

inputs == <<regexFlag, ignoreParentsString, ignoreChildrenString, inDir,
            readDirFails>>

\* flags.IgnoredParents / flags.IgnoredChildren (src/main.go 392-393)
IgnoredParents  == Split(ignoreParentsString)
IgnoredChildren == Split(ignoreChildrenString)

\* ---------------------------------------------- a unit's local computations

FName(f) == TrimSpace(f)

PreCheck(f) == ContainsAny(FName(f), MarkerChars)

FolderNames(f) == FindStringSubmatch(regexFlag, FName(f))

\* The value the loop over SubexpNames() leaves in a variable: that of the
\* last subexpression with this name, "" when there is none.
RECURSIVE NamedCapture(_, _, _, _)
NamedCapture(names, caps, name, k) ==
    IF k = 0 THEN <<>>
    ELSE IF names[k] = name THEN caps[k]
         ELSE NamedCapture(names, caps, name, k - 1)

\* The parent's capture used as it is written
ParentNameKeepingCase(f) ==
    NamedCapture(regexFlag.names, FolderNames(f), "parent", Len(regexFlag.names))

ParentName(f) ==
    ToLower(NamedCapture(regexFlag.names, FolderNames(f), "parent",
                         Len(regexFlag.names)))

ChildName(f) ==
    TrimSpace(NamedCapture(regexFlag.names, FolderNames(f), "child",
                           Len(regexFlag.names)))

\* The loop over the parents' list without its test for the empty string
IgnoredByParentUnguarded(f) ==
    \E k \in 1..Len(IgnoredParents) : Contains(ParentName(f), IgnoredParents[k])

\* The loops over the two ignore lists
IgnoredByParent(f) ==
    \E k \in 1..Len(IgnoredParents) :
        Contains(ParentName(f), IgnoredParents[k]) /\ IgnoredParents[k] # <<>>

IgnoredByChild(f) ==
    \E k \in 1..Len(IgnoredChildren) :
        Contains(ChildName(f), IgnoredChildren[k]) /\ IgnoredChildren[k] # <<>>

\* src is the entry itself; destinations are relative to outDirName
Src(f)        == f
DestParent(f) == Join(<<ParentName(f)>>)
Dest(f)       == Join(<<ParentName(f), ChildName(f)>>)

Msg(f, e) == [from |-> f, err |-> e]

\* -------------------------------------------------------------------- Init

NoUnits(v) == [f \in EntryNames |-> v]

Init ==
    /\ regexFlag \in Regexes
    /\ ignoreParentsString \in IgnoreParentsStrings
    /\ ignoreChildrenString \in IgnoreChildrenStrings
    /\ inDir \in Listings
    /\ readDirFails \in BOOLEAN
    /\ tree \in InitialTrees
    /\ run = "first"
    /\ mainpc = "main"
    /\ files = {}
    /\ err = "nil"
    /\ ignored = 0
    /\ errors = <<>>
    /\ i = 0
    /\ errCount = 0
    /\ summary = <<>>
    /\ pc = NoUnits("idle")
    /\ tmp = NoUnits(0)
    /\ destInfo = NoUnits("nil")
    /\ out = NoUnits("nil")
    /\ result = NoUnits("none")
    /\ received = NoUnits(<<>>)
    /\ tree0 = tree
    /\ first = <<>>

\* -------------------------------------------------------------------- main

\* main's Run (src/main.go 385-397): a pattern without exactly two
\* subexpressions is fatal, any other goes to consolidateFolders.
RegexAccepted(re) == NumSubexp(re) = 2

Main ==
    /\ mainpc = "main"
    /\ mainpc' = IF RegexAccepted(regexFlag) THEN "readdir" ELSE "fatal"
    /\ UNCHANGED <<inputs, received, tree, run, files, err, ignored, errors, i, errCount,
                   summary, pc, tmp, destInfo, out, result, tree0, first>>

\* ioutil.ReadDir and the loop that starts one goroutine per entry
\* (src/main.go 286-294); a failed listing returns its error at once.
ReadDir ==
    /\ mainpc = "readdir"
    /\ IF readDirFails
       THEN /\ err' = "readdir"
            /\ mainpc' = "returned"
            /\ UNCHANGED <<files, pc>>
       ELSE /\ err' = "nil"
            /\ files' = inDir
            /\ pc' = [f \in EntryNames |-> IF f \in inDir THEN "start" ELSE "idle"]
            /\ mainpc' = "collect"
    /\ UNCHANGED <<inputs, received, tree, run, ignored, errors, i, errCount, summary,
                   tmp, destInfo, out, result, tree0, first>>

\* ------------------------------------------------------------------- units

\* Classification that consults no ignore list: every classified entry goes
\* on to the Linker.
ClassifyWithoutIgnore(f) ==
    /\ pc[f] = "start"
    /\ IF ~PreCheck(f)
       THEN /\ out' = [out EXCEPT ![f] = "invalid"]
            /\ pc' = [pc EXCEPT ![f] = "send"]
       ELSE IF FolderNames(f) = <<>>
       THEN /\ out' = [out EXCEPT ![f] = "parse"]
            /\ pc' = [pc EXCEPT ![f] = "send"]
       ELSE /\ pc' = [pc EXCEPT ![f] = "mkdir"]
            /\ UNCHANGED out
    /\ UNCHANGED <<inputs, received, tree, run, mainpc, files, err, ignored, errors, i,
                   errCount, summary, tmp, destInfo, result, tree0, first>>

\* Pre-check, pattern match and the two ignore loops (src/main.go 295-328,
\* up to the first access to shared state).
Classify(f) ==
    /\ pc[f] = "start"
    /\ IF ~PreCheck(f)
       THEN /\ out' = [out EXCEPT ![f] = "invalid"]
            /\ pc' = [pc EXCEPT ![f] = "send"]
       ELSE IF FolderNames(f) = <<>>
       THEN /\ out' = [out EXCEPT ![f] = "parse"]
            /\ pc' = [pc EXCEPT ![f] = "send"]
       ELSE IF IgnoredByParent(f) \/ IgnoredByChild(f)
       THEN /\ pc' = [pc EXCEPT ![f] = "incr"]
            /\ UNCHANGED out
       ELSE /\ pc' = [pc EXCEPT ![f] = "mkdir"]
            /\ UNCHANGED out
    /\ UNCHANGED <<inputs, received, tree, run, mainpc, files, err, ignored, errors, i,
                   errCount, summary, tmp, destInfo, result, tree0, first>>

\* ignored++ is a read and a write of a variable the units share without
\* synchronisation (src/main.go 316, 324).
IgnoredLoad(f) ==
    /\ pc[f] = "incr"
    /\ tmp' = [tmp EXCEPT ![f] = ignored]
    /\ pc' = [pc EXCEPT ![f] = "store"]
    /\ UNCHANGED <<inputs, received, tree, run, mainpc, files, err, ignored, errors, i,
                   errCount, summary, destInfo, out, result, tree0, first>>

IgnoredStore(f) ==
    /\ pc[f] = "store"
    /\ ignored' = tmp[f] + 1
    /\ out' = [out EXCEPT ![f] = "nil"]
    /\ result' = [result EXCEPT ![f] = "Skipped"]
    /\ pc' = [pc EXCEPT ![f] = "send"]
    /\ UNCHANGED <<inputs, received, tree, run, mainpc, files, err, errors, i, errCount,
                   summary, tmp, destInfo, tree0, first>>

\* MkdirAll whose failure is sent on the channel like the other steps' failures
MkdirAllReporting(f) ==
    /\ pc[f] = "mkdir"
    /\ IF MkdirAllOK(tree, DestParent(f))
       THEN /\ tree' = MkdirAllTree(tree, DestParent(f), ModeOf(f))
            /\ err' = "nil"
            /\ pc' = [pc EXCEPT ![f] = "lstat"]
            /\ UNCHANGED out
       ELSE /\ err' = "mkdir"
            /\ out' = [out EXCEPT ![f] = "mkdir"]
            /\ pc' = [pc EXCEPT ![f] = "send"]
            /\ UNCHANGED tree
    /\ UNCHANGED <<inputs, received, run, mainpc, files, ignored, errors, i,
                   errCount, summary, tmp, destInfo, result, tree0, first>>

\* err = os.MkdirAll(destParent, f.Mode()); a failure returns without
\* sending (src/main.go 334-336).  err is consolidateFolders' result.
MkdirAll(f) ==
    /\ pc[f] = "mkdir"
    /\ IF MkdirAllOK(tree, DestParent(f))
       THEN /\ tree' = MkdirAllTree(tree, DestParent(f), ModeOf(f))
            /\ err' = "nil"
            /\ pc' = [pc EXCEPT ![f] = "lstat"]
            /\ UNCHANGED result
       ELSE /\ err' = "mkdir"
            /\ pc' = [pc EXCEPT ![f] = "done"]
            /\ result' = [result EXCEPT ![f] = "Unreported"]
            /\ UNCHANGED tree
    /\ UNCHANGED <<inputs, received, run, mainpc, files, ignored, errors, i, errCount,
                   summary, tmp, destInfo, out, tree0, first>>

\* The test without the mode bit: whatever is there is removed
IsRemovedAnything(st) == st # "notexist"

\* destInfo != nil && destInfo.Mode()&os.ModeSymlink != 0 (src/main.go 344)
IsRemoved(st) == st = "symlink"

\* destInfo, err := os.Lstat(dest) (src/main.go 338-342)
LstatDest(f) ==
    /\ pc[f] = "lstat"
    /\ LET st == Lstat(tree, Dest(f))
       IN  IF st = "error"
           THEN /\ out' = [out EXCEPT ![f] = "lstat"]
                /\ pc' = [pc EXCEPT ![f] = "send"]
                /\ UNCHANGED destInfo
           ELSE /\ destInfo' = [destInfo EXCEPT ![f] =
                                   IF st = "notexist" THEN "nil" ELSE st]
                /\ pc' = [pc EXCEPT ![f] =
                             IF IsRemoved(st) THEN "remove" ELSE "symlink"]
                /\ UNCHANGED out
    /\ UNCHANGED <<inputs, received, tree, run, mainpc, files, err, ignored, errors, i,
                   errCount, summary, tmp, result, tree0, first>>

\* os.Remove(dest) of the link Lstat saw (src/main.go 344-349)
RemoveDest(f) ==
    /\ pc[f] = "remove"
    /\ IF RemoveOK(tree, Dest(f))
       THEN /\ tree' = RemoveTree(tree, Dest(f))
            /\ pc' = [pc EXCEPT ![f] = "symlink"]
            /\ UNCHANGED out
       ELSE /\ out' = [out EXCEPT ![f] = "remove"]
            /\ pc' = [pc EXCEPT ![f] = "send"]
            /\ UNCHANGED tree
    /\ UNCHANGED <<inputs, received, run, mainpc, files, err, ignored, errors, i,
                   errCount, summary, tmp, destInfo, result, tree0, first>>

\* os.Symlink(src, dest) (src/main.go 351-356)
SymlinkDest(f) ==
    /\ pc[f] = "symlink"
    /\ IF SymlinkOK(tree, Dest(f))
       THEN /\ tree' = SymlinkTree(tree, Src(f), Dest(f))
            /\ out' = [out EXCEPT ![f] = "nil"]
            /\ result' = [result EXCEPT ![f] = "Linked"]
       ELSE /\ out' = [out EXCEPT ![f] = "symlink"]
            /\ UNCHANGED <<tree, result>>
    /\ pc' = [pc EXCEPT ![f] = "send"]
    /\ UNCHANGED <<inputs, received, run, mainpc, files, err, ignored, errors, i,
                   errCount, summary, tmp, destInfo, tree0, first>>

\* A send after which the goroutine does not return
SendAgain(f) ==
    /\ pc[f] = "send"
    /\ Len(errors) < Cardinality(files)
    /\ errors' = Append(errors, Msg(f, out[f]))
    /\ result' = [result EXCEPT ![f] =
                     IF out[f] = "nil" THEN @ ELSE "Failed"]
    /\ UNCHANGED <<inputs, received, tree, run, mainpc, files, err, ignored, i,
                   errCount, summary, tmp, destInfo, out, tree0, first, pc>>

\* errors <- e, then the goroutine ends.  The channel holds len(files)
\* values; a send to a full channel blocks.
Send(f) ==
    /\ pc[f] = "send"
    /\ Len(errors) < Cardinality(files)
    /\ errors' = Append(errors, Msg(f, out[f]))
    /\ result' = [result EXCEPT ![f] =
                     IF out[f] = "nil" THEN @ ELSE "Failed"]
    /\ pc' = [pc EXCEPT ![f] = "done"]
    /\ UNCHANGED <<inputs, received, tree, run, mainpc, files, err, ignored, i,
                   errCount, summary, tmp, destInfo, out, tree0, first>>

\* --------------------------------------------------------------- collector

\* One round of the collecting loop (src/main.go 360-366)
Receive ==
    /\ mainpc = "collect"
    /\ i < Cardinality(files)
    /\ errors # <<>>
    /\ errors' = Tail(errors)
    /\ errCount' = IF Head(errors).err # "nil" THEN errCount + 1 ELSE errCount
    /\ i' = i + 1
    /\ received' = [received EXCEPT ![Head(errors).from] = Append(@, Head(errors).err)]
    /\ UNCHANGED <<inputs, tree, run, mainpc, files, err, ignored, summary, pc,
                   tmp, destInfo, out, result, tree0, first>>

\* A collector that returns without waiting for the last outcome
ReturnEarly ==
    /\ mainpc = "collect"
    /\ i >= Cardinality(files) - 1
    /\ summary' = <<Cardinality(files) - ignored - errCount, errCount>>
    /\ mainpc' = "returned"
    /\ UNCHANGED <<inputs, received, tree, run, files, err, ignored, errors, i, errCount,
                   pc, tmp, destInfo, out, result, tree0, first>>

\* The summary line and the return (src/main.go 367-368)
Return ==
    /\ mainpc = "collect"
    /\ i = Cardinality(files)
    /\ summary' = <<Cardinality(files) - ignored - errCount, errCount>>
    /\ mainpc' = "returned"
    /\ UNCHANGED <<inputs, received, tree, run, files, err, ignored, errors, i, errCount,
                   pc, tmp, destInfo, out, result, tree0, first>>

\* The tool is invoked a second time with the same arguments on the tree
\* the first invocation left.
Rerun ==
    /\ mainpc = "returned"
    /\ run = "first"
    /\ ~readDirFails
    /\ run' = "second"
    /\ first' = <<tree, result>>
    /\ tree0' = tree
    /\ mainpc' = "main"
    /\ files' = {}
    /\ err' = "nil"
    /\ ignored' = 0
    /\ errors' = <<>>
    /\ i' = 0
    /\ errCount' = 0
    /\ summary' = <<>>
    /\ pc' = NoUnits("idle")
    /\ tmp' = NoUnits(0)
    /\ destInfo' = NoUnits("nil")
    /\ out' = NoUnits("nil")
    /\ result' = NoUnits("none")
    /\ received' = NoUnits(<<>>)
    /\ UNCHANGED <<inputs, tree>>

Unit(f) ==
    \/ Classify(f)
    \/ IgnoredLoad(f)
    \/ IgnoredStore(f)
    \/ MkdirAll(f)
    \/ LstatDest(f)
    \/ RemoveDest(f)
    \/ SymlinkDest(f)
    \/ Send(f)

Next ==
    \/ Main
    \/ ReadDir
    \/ \E f \in EntryNames : Unit(f)
    \/ Receive
    \/ Return
    \/ Rerun

Spec == Init /\ [][Next]_vars

\* The Go scheduler runs every goroutine that can take a step.
FairSpec ==
    /\ Spec
    /\ WF_vars(Main \/ ReadDir \/ Receive \/ Return)
    /\ \A f \in EntryNames : WF_vars(Unit(f))

\* ------------------------------------------------------------------ claims

Listed(f) == f \in files

\* Entries that pass the pre-check and match the pattern
Classified(f) == PreCheck(f) /\ FolderNames(f) # <<>>

\* Entries whose unit goes on to the Linker steps
ReachesLinker(f) == Classified(f) /\ ~IgnoredByParent(f) /\ ~IgnoredByChild(f)

\* C1: after a successful listing, under fair scheduling of the units and the
\* collector, consolidateFolders eventually returns its summary, whatever the
\* units' filesystem steps do (a failed MkdirAll included).
C1_EventuallyReturns == (mainpc = "collect") ~> (mainpc = "returned")

\* The values unit f has put on the channel so far, received or not
InChannel(f) == SelectSeq(errors, LAMBDA m : m.from = f)

Reports(f) ==
    received[f] \o [k \in 1..Len(InChannel(f)) |-> InChannel(f)[k].err]

\* A Linker step of f's unit has failed
LinkerStepFailed(f) ==
    result[f] = "Unreported" \/ out[f] \in {"lstat", "remove", "symlink"}

\* C2: an entry whose unit has ended after one of its Linker steps failed has
\* put exactly one value on the channel, a non-nil one, and once the collector
\* has taken it, it is counted in errCount.
C2_LinkerFailureRecorded ==
    \A f \in files :
        (pc[f] = "done" /\ LinkerStepFailed(f)) =>
            /\ Len(Reports(f)) = 1
            /\ Reports(f)[1] # "nil"
            /\ (received[f] # <<>> => errCount >= 1)

\* Number of listed entries with this result
Count(r) == Cardinality({f \in files : result[f] = r})

\* C6: the summary's counts are exact: linked = entries whose unit created its
\* symlink, errors = entries that failed, ignored = entries that matched an
\* ignore rule, and the three add up to the number of listed entries.
C6_SummaryExact ==
    (mainpc = "returned" /\ ~readDirFails) =>
        /\ summary[1] = Count("Linked")
        /\ summary[2] = Count("Failed")
        /\ ignored = Count("Skipped")
        /\ summary[1] + ignored + summary[2] = Cardinality(files)

\* The pattern has exactly two capture groups, named parent and child
HasBothNames(re) ==
    /\ NumSubexp(re) = 2
    /\ {re.names[k] : k \in 2..Len(re.names)} = {"parent", "child"}

\* C10: consolidateFolders is reached only with a pattern of exactly two
\* capture groups named for the group ("parent") and the member ("child").
C10_OnlyNamedPatternsReachCore ==
    mainpc \in {"readdir", "collect", "returned"} => HasBothNames(regexFlag)

\* The second invocation has returned
SecondRunDone == run = "second" /\ mainpc = "returned"

\* In the second run f's unit failed on a link: the link it was to remove was
\* gone, or the slot that held a link after the first run was taken.
FailedOnLink(f) ==
    \/ out[f] = "remove"
    \/ out[f] = "symlink" /\ first[1][Dest(f)].kind = "link"

IsPrefix(p, q) == Len(p) <= Len(q) /\ SubSeq(q, 1, Len(p)) = p

\* No destination of a listed entry that reaches the Linker is the
\* destination of another one, or a directory above it
DistinctDests ==
    \A f, g \in inDir :
        (f # g /\ ReachesLinker(f) /\ ReachesLinker(g)) =>
            ~IsPrefix(Dest(f), Dest(g))

\* C3 as stated: for every listing and every interleaving, the second run
\* leaves the layout of the first and records no failure caused by a link the
\* first run placed.
C3_IdempotentAnyListing ==
    SecondRunDone =>
        /\ tree = first[1]
        /\ \A f \in files : ~FailedOnLink(f)

\* C3 as amended: the same for every listing in which no entry's destination
\* is another entry's destination or a directory above it; there each entry
\* also ends as it did in the first run.
C3_IdempotentDistinctDests ==
    (SecondRunDone /\ DistinctDests) =>
        /\ tree = first[1]
        /\ \A f \in files : ~FailedOnLink(f) /\ result[f] = first[2][f]

\* A second run that took a link of the first run out of its slot and put it back
C3_Witness ==
    /\ SecondRunDone /\ DistinctDests
    /\ Cardinality({f \in files : ReachesLinker(f)}) >= 2
    /\ \E f \in files : /\ first[2][f] = "Linked"
                        /\ destInfo[f] = "symlink"
                        /\ result[f] = "Linked"
                        /\ tree[Dest(f)] = LinkNode(Src(f))

\* f's destination slot held a real file or directory when the run started
OccupiedByNonLink(f) ==
    Listed(f) /\ ReachesLinker(f) /\ tree0[Dest(f)].kind \in {"file", "dir"}

\* C4: a destination slot that held a real file or directory when the run
\* started still holds it, unchanged, in every state of the run, and the entry
\* whose slot it is ends Failed, counted by the collector.
C4_NonDestructive ==
    \A f \in EntryNames :
        OccupiedByNonLink(f) =>
            /\ tree[Dest(f)] = tree0[Dest(f)]
            /\ (pc[f] = "done" => result[f] = "Failed" /\ Reports(f) = <<"symlink">>)
            /\ (mainpc = "returned" => received[f] = <<"symlink">> /\ errCount >= 1)

C4_Witness ==
    /\ mainpc = "returned"
    /\ \E f \in EntryNames : /\ OccupiedByNonLink(f)
                             /\ tree0[Dest(f)] = FileNode
                             /\ result[f] = "Failed"

\* What becomes of f when its unit is the only one that runs on the tree the
\* run started from: a function of f's name and mode, the ignore lists and
\* the state of f's own destination.
Solo(f) ==
    IF ~Classified(f) THEN "Failed"
    ELSE IF ~ReachesLinker(f) THEN "Skipped"
    ELSE IF ~MkdirAllOK(tree0, DestParent(f)) THEN "Unreported"
    ELSE LET t1 == MkdirAllTree(tree0, DestParent(f), ModeOf(f))
             st == Lstat(t1, Dest(f))
         IN  IF st \in {"notexist", "symlink"} THEN "Linked" ELSE "Failed"

\* C5: when the listed entries resolve to pairwise distinct destinations, each
\* entry ends, in every interleaving and whatever happens to the other
\* entries, as it ends when it runs alone.
C5_Isolation ==
    DistinctDests => \A f \in files : pc[f] = "done" => result[f] = Solo(f)

\* The words of an ignore flag: its non-empty maximal runs without a space
Words(t) ==
    {SubSeq(t, a, b) : a \in 1..Len(t), b \in 1..Len(t)} \cap
    {w \in UNION {[1..n -> {t[k] : k \in 1..Len(t)} \ {Space}] : n \in 1..Len(t)} :
        \E a \in 1..Len(t) :
            /\ a + Len(w) - 1 <= Len(t)
            /\ SubSeq(t, a, a + Len(w) - 1) = w
            /\ (a = 1 \/ t[a - 1] = Space)
            /\ (a + Len(w) - 1 = Len(t) \/ t[a + Len(w)] = Space)}

\* v, not empty, occurs in s
Occurs(v, s) ==
    \E a \in 1..Len(s) : \E b \in a..Len(s) : SubSeq(s, a, b) = v

GroupMatches(f)  == \E v \in Words(ignoreParentsString) : Occurs(v, ParentName(f))
MemberMatches(f) == \E v \in Words(ignoreChildrenString) : Occurs(v, ChildName(f))

\* C7: a classified entry ends Skipped exactly when its lower-cased group
\* contains a non-empty string of the ignore-group list or its trimmed member
\* contains a non-empty string of the ignore-member list; the empty strings
\* that Split leaves in the lists skip nothing.
C7_IgnoreRule ==
    \A f \in files :
        (pc[f] = "done" /\ Classified(f)) =>
            (result[f] = "Skipped" <=> (GroupMatches(f) \/ MemberMatches(f)))

\* An entry skipped for its group alone beside one that no rule matches,
\* with an empty string in both lists
C7_Witness ==
    /\ <<>> \in {IgnoredParents[k] : k \in 1..Len(IgnoredParents)}
    /\ <<>> \in {IgnoredChildren[k] : k \in 1..Len(IgnoredChildren)}
    /\ \E f, g \in files :
          /\ pc[f] = "done" /\ pc[g] = "done"
          /\ Classified(f)
          /\ GroupMatches(f) /\ ~MemberMatches(f) /\ result[f] = "Skipped"
          /\ Classified(g) /\ result[g] = "Linked"

\* c and d are the same letter, d in lower case
FoldsTo(c, d) ==
    /\ d \notin {"R", "A", "B", "Q"}
    /\ (c = d \/ <<c, d>> \in {<<"R", "r">>, <<"A", "a">>, <<"B", "b">>, <<"Q", "q">>})

\* The tag of a bracketed name and what follows it
TagOpen(s)  == CHOOSE a \in 1..Len(s) : s[a] = "[" /\ \A k \in 1..(a - 1) : s[k] # "["
TagClose(s) ==
    CHOOSE b \in (TagOpen(s) + 2)..Len(s) :
        s[b] = "]" /\ \A k \in (TagOpen(s) + 2)..(b - 1) : s[k] # "]"
Tag(s)      == SubSeq(s, TagOpen(s) + 1, TagClose(s) - 1)
AfterTag(s) == SubSeq(s, TagClose(s) + 1, Len(s))

\* v is s without the spaces around it
IsTrimOf(v, s) ==
    /\ v # <<>> => v[1] # Space /\ v[Len(v)] # Space
    /\ \E a \in 1..(Len(s) + 1) :
          /\ a + Len(v) - 1 <= Len(s)
          /\ SubSeq(s, a, a + Len(v) - 1) = v
          /\ \A k \in 1..Len(s) : (k < a \/ k > a + Len(v) - 1) => s[k] = Space

\* d is the group g in lower case
IsLowerOf(d, g) == Len(d) = Len(g) /\ \A k \in 1..Len(g) : FoldsTo(g[k], d[k])

C9_ErrorOnlyFromListing ==
    mainpc = "returned" =>
        /\ (err # "nil") <=> readDirFails
        /\ readDirFails =>
              /\ files = {}
              /\ \A f \in EntryNames : pc[f] = "idle"
              /\ tree = tree0
              /\ summary = <<>>

\* A return of nil after a listing of which every entry failed
C9_Witness ==
    /\ mainpc = "returned" /\ ~readDirFails /\ err = "nil"
    /\ files # {} /\ errCount = Cardinality(files)
    /\ \E f \in files : received[f] = <<"symlink">>

\* C11: every unit has put at most one outcome on the channel, so the channel
\* never holds more than len(files) outcomes, a unit that is about to send
\* finds room in it, and the collector takes no entry's outcome twice.
C11_OneOutcomePerUnit ==
    /\ \A f \in EntryNames :
          /\ Len(Reports(f)) <= 1
          /\ Len(received[f]) <= 1
          /\ (~Listed(f) => Reports(f) = <<>>)
    /\ Len(errors) <= Cardinality(files)
    /\ \A f \in files : pc[f] = "send" => Len(errors) < Cardinality(files)

\* Every listed entry's outcome is buffered at once: the channel is full
C11_Witness ==
    /\ Cardinality(files) >= 2
    /\ Len(errors) = Cardinality(files)
    /\ \A f \in files : pc[f] = "done" /\ Len(InChannel(f)) = 1

\* The Linker's program points
LinkerPcs == {"mkdir", "lstat", "remove", "symlink"}

\* C12: the unit of an entry that fails classification or is skipped by an
\* ignore rule never stands at a Linker step, and no step it takes changes
\* the output tree.
C12_NoMutationWithoutLinker ==
    /\ [](\A f \in files : ~ReachesLinker(f) => pc[f] \notin LinkerPcs)
    /\ [][\A f \in files :
            (~ReachesLinker(f) /\ pc'[f] # pc[f]) => tree' = tree]_vars

\* A run in which one entry has ended Failed on classification and another
\* has ended Skipped
C12_Witness ==
    /\ \E f \in files : ~Classified(f) /\ pc[f] = "done" /\ result[f] = "Failed"
    /\ \E f \in files :
          Classified(f) /\ ~ReachesLinker(f) /\ pc[f] = "done" /\ result[f] = "Skipped"

\* f and g are listed entries of one group with different slots, both free
\* when the run starts, under a group directory that is there or can be made
ShareGroup(f, g) ==
    /\ f # g /\ Listed(f) /\ Listed(g)
    /\ ReachesLinker(f) /\ ReachesLinker(g)
    /\ DestParent(f) = DestParent(g)
    /\ Dest(f) # Dest(g)
    /\ Dest(f) # DestParent(f) /\ Dest(g) # DestParent(g)
    /\ MkdirAllOK(tree0, DestParent(f))
    /\ tree0[Dest(f)] = NoNode /\ tree0[Dest(g)] = NoNode

\* C13: of two units whose entries share a group, neither fails on MkdirAll of
\* outDir/<group>, whichever comes first, and each ends with its own link
\* placed.
C13_SharedGroupBothLink ==
    \A f, g \in EntryNames :
        ShareGroup(f, g) =>
            /\ result[f] # "Unreported"
            /\ (pc[f] = "done" =>
                    result[f] = "Linked" /\ tree[Dest(f)] = LinkNode(Src(f)))

\* f and g are the two listed entries and resolve to one slot, which is free
\* or holds a symbolic link when the run starts, under a group directory that
\* is there or can be made
SameSlot(f, g) ==
    /\ f # g /\ files = {f, g}
    /\ ReachesLinker(f) /\ ReachesLinker(g)
    /\ Dest(f) = Dest(g)
    /\ Dest(f) # DestParent(f)
    /\ MkdirAllOK(tree0, DestParent(f))
    /\ tree0[Dest(f)].kind \in {"none", "link"}

\* C14: when two listed entries resolve to one slot, the slot holds, once the
\* run has returned, a symbolic link to the source of one of the two.
C14_LastWriteWins ==
    \A f, g \in EntryNames :
        (SameSlot(f, g) /\ mainpc = "returned") =>
            tree[Dest(f)] \in {LinkNode(Src(f)), LinkNode(Src(g))}

\* C15: an entry is classified successfully exactly when the supplied pattern
\* matches its trimmed name; the pre-check fails no name the pattern matches.
C15_PreCheckOnlyOptimization ==
    \A f \in files :
        pc[f] \notin {"idle", "start"} =>
            (out[f] \in {"invalid", "parse"}
                <=> FindStringSubmatch(regexFlag, FName(f)) = <<>>)

\* C16: once consolidateFolders has returned, every dispatched unit has
\* ended, and the output tree changes no more.
C16_AllUnitsDoneAtReturn ==
    /\ [](mainpc = "returned" => \A f \in files : pc[f] = "done")
    /\ [][mainpc = "returned" => tree' = tree]_vars

\* A run of two or more units that changed the output tree has returned
C16_Witness ==
    /\ mainpc = "returned" /\ run = "first"
    /\ Cardinality(files) >= 2
    /\ \A f \in files : pc[f] = "done"
    /\ \E f \in files : result[f] = "Linked" /\ tree[Dest(f)] # tree0[Dest(f)]

\* p lies in the output tree: no component of it leads above outDir
Below(p) == \A k \in 1..Len(p) : p[k] # DotDot

\* C17: whatever a run changes lies in the output tree, and is the group
\* directory outDir/<group> of a listed entry, made a directory, or the
\* entry's own slot two levels below outDir.
C17_ConfinedToOutDir ==
    \A p \in Paths :
        tree[p] # tree0[p] =>
            /\ Below(p)
            /\ \E f \in files :
                  /\ ReachesLinker(f)
                  /\ \/ p = DestParent(f) /\ Len(p) = 1 /\ tree[p].kind = "dir"
                     \/ p = Dest(f) /\ Len(p) = 2

=============================================================================
